---- MODULE Spec2Model ----
(***************************************************************************)
(* Model of the grid-to-grid data transfer engine: utils/node.py,          *)
(* utils/grid.py and utils/grid_transformer.py, and of the iteration steps *)
(* of utils/engines_handler.py and utils/simulation_handler.py (handler).  *)
(*                                                                         *)
(* A Grid is a Python dict node_number -> Node; a dict keeps insertion     *)
(* order, so a grid is modelled as a sequence of node records with         *)
(* pairwise distinct node_numbers.  Grid objects live in a heap (gridObjs) *)
(* and the transformer's registry refers to them by identity, as Python    *)
(* references do.                                                          *)
(*                                                                         *)
(* Numbers are exact rationals n/d (d > 0, reduced); IEEE rounding of the  *)
(* Python floats is not modelled.  The special floats NaN, +inf and -inf   *)
(* are modelled, as are None and the False that Node.get_value returns for *)
(* a missing key.                                                          *)
(***************************************************************************)
EXTENDS Integers, Sequences, FiniteSets, TLC

VARIABLES gridObjs, grids, last, transitions, handler

vars == <<gridObjs, grids, last, transitions, handler>>

\* a SimulationHandler: its engines in the order they were added, each with
\* the iterations list of its EnginesHandler, and its list of iteration names
NoHandler == [engines |-> <<>>, iterations |-> <<>>]

-----------------------------------------------------------------------------
(* Bounds of the model *)

\* transition calls of one behaviour that return normally (each may write
\* rationals no earlier call has written)
MaxTransitions == 2

-----------------------------------------------------------------------------
(* Values *)

\* numpy.inf, the default of distance_max; also the distance KDTree.query
\* reports for a neighbor that does not exist
Inf == -1

Num(n) == [k |-> "num", n |-> n, d |-> 1]
NaN == [k |-> "nan", n |-> 0, d |-> 1]
None == [k |-> "none", n |-> 0, d |-> 1]
False == [k |-> "false", n |-> 0, d |-> 1]
PInf == [k |-> "pinf", n |-> 0, d |-> 1]
NInf == [k |-> "ninf", n |-> 0, d |-> 1]

Abs(i) == IF i < 0 THEN -i ELSE i

RECURSIVE GCD(_, _)
GCD(a, b) == IF b = 0 THEN a ELSE GCD(b, a % b)

\* the rational n/d, d # 0, reduced and with a positive denominator
Rat(n, d) ==
    LET g == GCD(Abs(n), Abs(d))
        s == IF d < 0 THEN -1 ELSE 1
    IN [k |-> "num", n |-> (s * n) \div g, d |-> (s * d) \div g]

\* Python truth value of a stored value: 0, 0.0, None and False are falsy, NaN is not
Truthy(v) ==
    CASE v.k = "num" -> v.n # 0
      [] v.k = "none" -> FALSE
      [] v.k = "false" -> FALSE
      [] OTHER -> TRUE

\* isinstance(value, int) or isinstance(value, float): bool is a subclass of int
IsIntOrFloat(v) == v.k # "none"

\* the float a value takes part in arithmetic as: False is 0
AsFloat(v) == IF v.k = "false" THEN Num(0) ELSE v

\* float addition
FAdd(a, b) ==
    CASE a.k = "nan" \/ b.k = "nan" -> NaN
      [] a.k = "pinf" -> IF b.k = "ninf" THEN NaN ELSE PInf
      [] a.k = "ninf" -> IF b.k = "pinf" THEN NaN ELSE NInf
      [] b.k = "pinf" -> PInf
      [] b.k = "ninf" -> NInf
      [] OTHER -> Rat(a.n * b.d + b.n * a.d, a.d * b.d)

\* a / distance for a numpy.float64 distance >= 0 (Inf for numpy.inf):
\* division by zero yields inf or NaN (a RuntimeWarning, no exception)
FDivDist(a, dist) ==
    CASE a.k = "nan" -> NaN
      [] a.k \in {"pinf", "ninf"} -> IF dist = Inf THEN NaN ELSE a
      [] dist = Inf -> Num(0)
      [] dist = 0 -> IF a.n = 0 THEN NaN ELSE IF a.n > 0 THEN PInf ELSE NInf
      [] OTHER -> Rat(a.n, a.d * dist)

\* float division a / b of two numpy.float64
FDiv(a, b) ==
    CASE a.k = "nan" \/ b.k = "nan" -> NaN
      [] a.k \in {"pinf", "ninf"} ->
            IF b.k \in {"pinf", "ninf"} THEN NaN
            ELSE IF (a.k = "pinf") = (b.n >= 0) THEN PInf ELSE NInf
      [] b.k \in {"pinf", "ninf"} -> Num(0)
      [] b.n = 0 -> IF a.n = 0 THEN NaN ELSE IF a.n > 0 THEN PInf ELSE NInf
      [] OTHER -> Rat(a.n * b.d, a.d * b.n)

-----------------------------------------------------------------------------
(* Node (utils/node.py) *)

NoZ == [has |-> FALSE, v |-> 0]
Z(v) == [has |-> TRUE, v |-> v]

\* Node.__init__ with integer coordinates; values is a dict or left out
Node(node_number, x, y, z, values) ==
    [node_number |-> node_number, x |-> x, y |-> y, z |-> z, values |-> values]

\* Node.coordinates: a falsy z (None or 0) is reported as 0
Coordinates(node) ==
    <<node.x, node.y, IF node.z.has /\ node.z.v # 0 THEN node.z.v ELSE 0>>

\* Node.get_value: coordinates shadow the stored values; a missing key is
\* caught and answered with False
get_value(node, value_name) ==
    IF value_name \in {"x", "x_coordinate"} THEN Num(node.x)
    ELSE IF value_name \in {"y", "y_coordinate"} THEN Num(node.y)
    ELSE IF value_name \in {"z", "z_coordinate"}
         THEN (IF node.z.has THEN Num(node.z.v) ELSE None)
    ELSE IF value_name \in DOMAIN node.values THEN node.values[value_name]
    ELSE False

\* a set_value that adds the new value to a number already stored
set_value_add(node, value_name, value) ==
    [node EXCEPT !.values =
        [f \in (DOMAIN node.values) \cup {value_name} |->
            IF f # value_name THEN node.values[f]
            ELSE IF f \in DOMAIN node.values /\ node.values[f].k = "num"
                 THEN FAdd(node.values[f], value)
                 ELSE value]]

\* a set_value that only adds: a value already stored is kept
set_value_keep(node, value_name, value) ==
    [node EXCEPT !.values =
        [f \in (DOMAIN node.values) \cup {value_name} |->
            IF f \in DOMAIN node.values THEN node.values[f] ELSE value]]

\* Node.set_value: add or overwrite
set_value(node, value_name, value) ==
    [node EXCEPT !.values =
        [f \in (DOMAIN node.values) \cup {value_name} |->
            IF f = value_name THEN value ELSE node.values[f]]]

-----------------------------------------------------------------------------
(* Grid (utils/grid.py) *)

Range(s) == {s[i] : i \in 1..Len(s)}

\* list(grid.nodes.keys())
NodeKeys(grid) == [i \in 1..Len(grid) |-> grid[i].node_number]

NodeNumbers(grid) == Range(NodeKeys(grid))

\* grid.nodes[node_number], for a node_number of the grid
NodeOf(grid, node_number) ==
    grid[CHOOSE i \in 1..Len(grid) : grid[i].node_number = node_number]

\* a completeness check that fills nothing in
no_completeness(grid, set_name) == grid

\* Grid.check_value_set_completeness: a missing or falsy value becomes NaN
check_value_set_completeness(grid, set_name) ==
    [i \in 1..Len(grid) |->
        IF set_name \in DOMAIN grid[i].values /\ Truthy(grid[i].values[set_name])
        THEN grid[i]
        ELSE set_value(grid[i], set_name, NaN)]

\* Grid.get_coordinates_array
get_coordinates_array(grid) == [i \in 1..Len(grid) |-> Coordinates(grid[i])]

\* Grid.get_node_values: the dict node_number -> value of the nodes whose
\* get_value is an int or a float; the result is falsy when the dict is empty
get_node_values(grid, value_name) ==
    LET has == {n \in NodeNumbers(grid) :
                    IsIntOrFloat(get_value(NodeOf(grid, n), value_name))}
    IN [n \in has |-> get_value(NodeOf(grid, n), value_name)]

\* a set_node_values that writes the values of the keys it knows before it
\* fails for one it does not know
set_node_values_eager(grid, value_name, node_dict) ==
    LET written == [i \in 1..Len(grid) |->
                       IF grid[i].node_number \in DOMAIN node_dict
                       THEN [grid[i] EXCEPT !.values =
                               [f \in (DOMAIN grid[i].values) \cup {value_name} |->
                                   IF f = value_name
                                   THEN node_dict[grid[i].node_number]
                                   ELSE grid[i].values[f]]]
                       ELSE grid[i]]
    IN IF \E n \in DOMAIN node_dict : n \notin NodeNumbers(grid)
       THEN [res |-> "ValueError", grid |-> written]
       ELSE [res |-> "True", grid |-> written]

\* Grid.set_node_values: every key must be a node of the grid (ValueError
\* otherwise, before anything is written); then write through and run the
\* completeness check.  node_dict is a function node_number -> value.
set_node_values(grid, value_name, node_dict) ==
    IF \E n \in DOMAIN node_dict : n \notin NodeNumbers(grid)
    THEN [res |-> "ValueError", grid |-> grid]
    ELSE LET written == [i \in 1..Len(grid) |->
                            IF grid[i].node_number \in DOMAIN node_dict
                            THEN set_value(grid[i], value_name,
                                           node_dict[grid[i].node_number])
                            ELSE grid[i]]
         IN [res |-> "True",
             grid |-> check_value_set_completeness(written, value_name)]

EmptyDict == [f \in {} |-> NaN]

\* Grid.add_node with an integer node_number: an existing number is logged
\* and left alone (nothing is raised), a new one is appended
add_node(grid, node_number, x, y, z, values) ==
    IF node_number \in NodeNumbers(grid)
    THEN grid
    ELSE Append(grid, Node(node_number, x, y, z, values))

\* the body of the loop of Grid.initiate_grid for the rows from position i on;
\* a row is a record that has the keys the Python dict has
RECURSIVE initiate_rows(_, _, _, _)
initiate_rows(grid, data_set, value_name, i) ==
    IF i > Len(data_set) THEN [res |-> "True", grid |-> grid]
    ELSE LET row == data_set[i]
             keys == DOMAIN row
         IN IF "x_coordinate" \notin keys \/ "y_coordinate" \notin keys
            THEN [res |-> "False", grid |-> grid]
            ELSE LET z == IF "z_coordinate" \in keys THEN Z(row.z_coordinate) ELSE NoZ
                     values ==
                        IF "values" \in keys THEN row.values
                        ELSE IF "value" \in keys
                        THEN [f \in {IF value_name # "" THEN value_name ELSE "data"}
                                |-> row.value]
                        ELSE EmptyDict
                     node_number ==
                        IF "node_number" \in keys THEN row.node_number ELSE i - 1
                 IN initiate_rows(
                        add_node(grid, node_number, row.x_coordinate,
                                 row.y_coordinate, z, values),
                        data_set, value_name, i + 1)

\* initiate_grid reading 0 for a coordinate a row does not have
initiate_grid_zeros(grid, data_set, value_name, clear_first) ==
    initiate_rows(IF clear_first /\ Len(grid) > 0 THEN <<>> ELSE grid,
                  [i \in 1..Len(data_set) |->
                        data_set[i] @@ [x_coordinate |-> 0, y_coordinate |-> 0]],
                  value_name, 1)

\* Grid.initiate_grid for a list data_set; value_name "" stands for None
initiate_grid(grid, data_set, value_name, clear_first) ==
    initiate_rows(IF clear_first /\ Len(grid) > 0 THEN <<>> ELSE grid,
                  data_set, value_name, 1)

-----------------------------------------------------------------------------
(* Nearest-neighbor search (scipy.spatial.KDTree as used by                *)
(* GridTransformer.find_nearest_neighbors)                                 *)

\* the integer square root of a perfect square, sq <= bound * bound
ISqrt(sq, bound) == CHOOSE r \in 0..bound : r * r = sq

\* Euclidean distance of two coordinate tuples; the grids of this model have
\* integral distances, which float32 coordinates and float64 distances hold
\* exactly
Distance(a, b) ==
    LET dx == Abs(a[1] - b[1])
        dy == Abs(a[2] - b[2])
        dz == Abs(a[3] - b[3])
    IN ISqrt(dx * dx + dy * dy + dz * dz, dx + dy + dz)

\* d1 <= d2 for distances, Inf being numpy.inf
DistLeq(d1, d2) == d2 = Inf \/ (d1 # Inf /\ d1 <= d2)

\* tree.query(point, k) for k >= 2 on a tree of n = Len(src) points: the
\* possible answers, each a sequence of k pairs (index, dist) with 0-based
\* indices.  The min(k, n) nearest points come first, nearest first; points at
\* equal distance come in an order the library does not specify.  Missing
\* neighbors are reported with index n and distance inf.  The third
\* positional argument of query is eps, which is what distance_max is
\* passed as; a tree of at most leafsize (10) points is one leaf, is searched
\* exhaustively, and eps has no effect on it.
Query(src, point, k) ==
    LET n == Len(src)
        m == IF k < n THEN k ELSE n
        d(j) == Distance(src[j + 1], point)
        picks == {s \in [1..m -> 0..(n - 1)] :
                    /\ \A a, b \in 1..m : a < b => s[a] # s[b] /\ d(s[a]) <= d(s[b])
                    /\ \A j \in 0..(n - 1) :
                          (\A a \in 1..m : s[a] # j) => \A a \in 1..m : d(s[a]) <= d(j)}
    IN {[i \in 1..k |-> IF i <= m THEN [idx |-> s[i], dist |-> d(s[i])]
                        ELSE [idx |-> n, dist |-> Inf]] : s \in picks}

\* tree.query(targets, k): one answer per target point
RECURSIVE QueryAll(_, _, _, _)
QueryAll(src, targets, k, i) ==
    IF i = 0 THEN {<<>>}
    ELSE {Append(p, q) : p \in QueryAll(src, targets, k, i - 1),
                         q \in Query(src, targets[i], k)}

\* list[i] of a Python list for an index i >= -len(list): negative indices
\* count from the end
PyIndex(list, i) == IF i >= 0 THEN list[i + 1] ELSE list[Len(list) + i + 1]

-----------------------------------------------------------------------------
(* GridTransformer (utils/grid_transformer.py) *)

\* the entries find_nearest_neighbors keeps of one query answer: entry j
\* names grid_1_nodes[points[i][j] - 1]; with a finite distance_max the
\* entries farther away are skipped
\* the entries of one query answer from entry j on with no distance checked
neighbor_entries_unchecked(grid_1_nodes, answer, distance_max, j) ==
    [n \in 1..(Len(answer) - j + 1) |->
        [node_number |-> PyIndex(grid_1_nodes, answer[n + j - 1].idx - 1),
         distance |-> answer[n + j - 1].dist]]

RECURSIVE neighbor_entries(_, _, _, _)
neighbor_entries(grid_1_nodes, answer, distance_max, j) ==
    IF j > Len(answer) THEN <<>>
    ELSE LET node == PyIndex(grid_1_nodes, answer[j].idx - 1)
             distance == answer[j].dist
             rest == neighbor_entries(grid_1_nodes, answer, distance_max, j + 1)
         IN IF distance_max # Inf /\ ~DistLeq(distance, distance_max)
            THEN rest
            ELSE <<[node_number |-> node, distance |-> distance]>> \o rest

\* transform_dict of find_nearest_neighbors, in insertion order: one item per
\* target node; an empty list of entries is replaced by None (lonely)
transform_dict(grid_1_nodes, grid_2_nodes, answers, distance_max) ==
    [i \in 1..Len(answers) |->
        LET entries == neighbor_entries(grid_1_nodes, answers[i], distance_max, 1)
        IN [node |-> grid_2_nodes[i],
            lonely |-> Len(entries) = 0,
            nbrs |-> entries]]

\* the weighted average of transition over the entries of one target node,
\* from entry j on; KeyError when src_values has no entry for a neighbor
RECURSIVE weighted_sums(_, _, _, _, _)
weighted_sums(node_dict, src_values, j, sum_distance, factor) ==
    IF j > Len(node_dict)
    THEN [res |-> "ok", val |-> FDiv(factor, sum_distance)]
    ELSE LET distance == node_dict[j].distance
             node_number == node_dict[j].node_number
         IN IF node_number \notin DOMAIN src_values
            THEN [res |-> "KeyError", val |-> NaN]
            ELSE weighted_sums(node_dict, src_values, j + 1,
                    FAdd(sum_distance, FDivDist(Num(1), distance)),
                    FAdd(factor, FDivDist(AsFloat(src_values[node_number]), distance)))

\* the loop of transition over the items of the neighbor map from item i on:
\* the target grid as written so far, and KeyError as soon as a neighbor has
\* no source value or the target grid has no node of that number
RECURSIVE transition_loop(_, _, _, _, _)
transition_loop(map, src_values, value_name, target, i) ==
    IF i > Len(map) THEN [res |-> "ok", grid |-> target]
    ELSE IF map[i].lonely
    THEN transition_loop(map, src_values, value_name, target, i + 1)
    ELSE LET avg == weighted_sums(map[i].nbrs, src_values, 1, Num(0), Num(0))
         IN IF avg.res # "ok" \/ map[i].node \notin NodeNumbers(target)
            THEN [res |-> "KeyError", grid |-> target]
            ELSE transition_loop(map, src_values, value_name,
                    [n \in 1..Len(target) |->
                        IF target[n].node_number = map[i].node
                        THEN set_value(target[n], value_name, avg.val)
                        ELSE target[n]],
                    i + 1)

\* a lookup under the source, keyed by the target name
cached_map_reversed(reg, src_grid_name, target_grid_name) ==
    IF target_grid_name \in DOMAIN reg[src_grid_name].transform
    THEN [found |-> TRUE, map |-> reg[src_grid_name].transform[target_grid_name]]
    ELSE [found |-> FALSE, map |-> <<>>]

\* the neighbor map transition works with: the one kept under the target,
\* keyed by the source name, if there is one
cached_map(reg, src_grid_name, target_grid_name) ==
    IF src_grid_name \in DOMAIN reg[target_grid_name].transform
    THEN [found |-> TRUE, map |-> reg[target_grid_name].transform[src_grid_name]]
    ELSE [found |-> FALSE, map |-> <<>>]

\* a target_grid that is the entry of the source
source_entry(reg, src_grid_name, target_grid_name) == reg[src_grid_name]

\* target_grid of transition: the registry entry whose grid is written
target_entry(reg, src_grid_name, target_grid_name) == reg[target_grid_name]

\* GridTransformer.transition on the registry reg and the heap objs: the
\* outcome and the heap after the call
transition(reg, objs, src_grid_name, value_name, target_grid_name) ==
    IF src_grid_name \notin DOMAIN reg \/ target_grid_name \notin DOMAIN reg
    THEN [res |-> "KeyError", objs |-> objs]
    ELSE LET src_grid == reg[src_grid_name]
             target_grid == target_entry(reg, src_grid_name, target_grid_name)
             src_values == get_node_values(objs[src_grid.grid], value_name)
             neighbors == cached_map(reg, src_grid_name, target_grid_name)
         IN IF DOMAIN src_values = {}
            THEN [res |-> "KeyError", objs |-> objs]
            ELSE IF ~neighbors.found
            THEN [res |-> "KeyError", objs |-> objs]
            ELSE LET done == transition_loop(neighbors.map, src_values, value_name,
                                             objs[target_grid.grid], 1)
                 IN IF done.res # "ok"
                    THEN [res |-> "KeyError",
                          objs |-> [objs EXCEPT ![target_grid.grid] = done.grid]]
                    ELSE [res |-> "True",
                          objs |-> [objs EXCEPT ![target_grid.grid] =
                                check_value_set_completeness(done.grid, value_name)]]

-----------------------------------------------------------------------------
(* The calls of a driver *)

\* the names grids are registered under, and the Grid objects
GridNames == {"A", "B"}
GridIds == {1, 2}

\* data sets and arguments of the initiate_grid calls of the driver
RowsA ==
    <<[node_number |-> 1, x_coordinate |-> 0, y_coordinate |-> 0, value |-> Num(10)],
      [node_number |-> 2, x_coordinate |-> 10, y_coordinate |-> 0, value |-> Num(20)]>>
RowsB ==
    <<[node_number |-> 1, x_coordinate |-> 5, y_coordinate |-> 0]>>
RowsC ==
    <<[x_coordinate |-> 5, y_coordinate |-> 0, z_coordinate |-> 12,
       values |-> [p |-> Num(0), q |-> Num(3)]],
      [x_coordinate |-> 5, y_coordinate |-> 0, values |-> [p |-> Num(7)]]>>

\* the initiate_grid calls of the driver, gid being the Grid object
InitCalls ==
    {[gid |-> 1, data_set |-> RowsA, value_name |-> "p", clear_first |-> TRUE],
     [gid |-> 2, data_set |-> RowsB, value_name |-> "", clear_first |-> TRUE],
     [gid |-> 2, data_set |-> RowsC, value_name |-> "", clear_first |-> TRUE]}

\* the set_node_values calls of the driver
SetCalls ==
    {[gid |-> 1, value_name |-> "p", node_dict |-> (1 :> Num(30))],
     [gid |-> 1, value_name |-> "p", node_dict |-> (1 :> Num(0) @@ 2 :> None)],
     [gid |-> 2, value_name |-> "p", node_dict |-> (0 :> Num(4))],
     [gid |-> 1, value_name |-> "z", node_dict |-> (1 :> Num(5))]}

\* the add_grid calls of the driver
AddCalls ==
    {[gid |-> 1, grid_name |-> "A"],
     [gid |-> 2, grid_name |-> "B"]}

\* the update_grid calls of the driver
UpdateCalls ==
    {[gid |-> 2, grid_name |-> "A"]}

\* the find_nearest_neighbors calls of the driver
FnnCalls ==
    {[src |-> "A", tgt |-> "B", neighbors_quantity |-> 2, distance_max |-> 6],
     [src |-> "B", tgt |-> "A", neighbors_quantity |-> 2, distance_max |-> 6],
     [src |-> "A", tgt |-> "B", neighbors_quantity |-> 1, distance_max |-> Inf],
     [src |-> "A", tgt |-> "A", neighbors_quantity |-> 2, distance_max |-> Inf]}

\* the transition calls of the driver
TransitionCalls ==
    {[src |-> "A", value_name |-> "p", tgt |-> "B"],
     [src |-> "B", value_name |-> "p", tgt |-> "A"],
     [src |-> "A", value_name |-> "p", tgt |-> "A"]}

\* the record of a call: what was called with which arguments, what it
\* answered, and for a transition whether it repeats the call before it,
\* which returned normally
Call(op, src, tgt, field, gid, neighbors_quantity, distance_max, res) ==
    [op |-> op, src |-> src, tgt |-> tgt, field |-> field, gid |-> gid,
     neighbors_quantity |-> neighbors_quantity, distance_max |-> distance_max,
     res |-> res,
     repeat |-> /\ op = "transition" /\ last.op = op /\ last.src = src
                /\ last.tgt = tgt /\ last.field = field /\ last.res = "True"]

Init ==
    /\ gridObjs = [g \in GridIds |-> <<>>]
    /\ grids = [n \in {} |-> 0]
    /\ last = [op |-> "init", src |-> "", tgt |-> "", field |-> "", gid |-> 0,
               neighbors_quantity |-> 0, distance_max |-> 0, res |-> "",
               repeat |-> FALSE]
    /\ transitions = 0
    /\ handler = NoHandler

\* grid.initiate_grid(data_set, value_name, clear_first) on a Grid object
InitiateGrid(call) ==
    LET gid == call.gid
        r == initiate_grid(gridObjs[gid], call.data_set, call.value_name,
                           call.clear_first)
    IN /\ gridObjs' = [gridObjs EXCEPT ![gid] = r.grid]
       /\ last' = Call("initiate_grid", "", "", call.value_name, gid, 0, 0, r.res)
       /\ UNCHANGED <<grids, transitions, handler>>

\* grid.set_node_values(value_name, node_dict) on a Grid object
SetNodeValues(call) ==
    LET gid == call.gid
        value_name == call.value_name
        r == set_node_values(gridObjs[gid], value_name, call.node_dict)
    IN /\ gridObjs' = [gridObjs EXCEPT ![gid] = r.grid]
       /\ last' = Call("set_node_values", "", "", value_name, gid, 0, 0, r.res)
       /\ UNCHANGED <<grids, transitions, handler>>

\* an add_grid that replaces the entry of a name that is registered
add_grid_overwrite(reg, gid, grid_name) ==
    [res |-> "True",
     reg |-> [n \in (DOMAIN reg) \cup {grid_name} |->
                IF n = grid_name
                THEN [grid |-> gid, transform |-> [s \in {} |-> <<>>]]
                ELSE reg[n]]]

\* GridTransformer.add_grid
add_grid(reg, gid, grid_name) ==
    IF grid_name \in DOMAIN reg
    THEN [res |-> "KeyError", reg |-> reg]
    ELSE [res |-> "True",
          reg |-> [n \in (DOMAIN reg) \cup {grid_name} |->
                     IF n = grid_name
                     THEN [grid |-> gid, transform |-> [s \in {} |-> <<>>]]
                     ELSE reg[n]]]

AddGrid(gid, grid_name) ==
    LET r == add_grid(grids, gid, grid_name)
    IN /\ grids' = r.reg
       /\ last' = Call("add_grid", "", grid_name, "", gid, 0, 0, r.res)
       /\ UNCHANGED <<gridObjs, transitions, handler>>

\* GridTransformer.update_grid: the entry deleted is the one under the
\* literal key 'grid_name'
update_grid(reg, gid, grid_name) ==
    IF grid_name \notin DOMAIN reg \/ "grid_name" \notin DOMAIN reg
    THEN [res |-> "KeyError", reg |-> reg]
    ELSE [res |-> "True",
          reg |-> [n \in ((DOMAIN reg) \ {"grid_name"}) \cup {grid_name} |->
                     IF n = grid_name
                     THEN [grid |-> gid, transform |-> [s \in {} |-> <<>>]]
                     ELSE reg[n]]]

UpdateGrid(gid, grid_name) ==
    LET r == update_grid(grids, gid, grid_name)
    IN /\ grids' = r.reg
       /\ last' = Call("update_grid", "", grid_name, "", gid, 0, 0, r.res)
       /\ UNCHANGED <<gridObjs, transitions, handler>>

\* GridTransformer.find_nearest_neighbors: the possible outcomes, one per
\* answer of the spatial query
find_nearest_neighbors(reg, objs, grid_name_1, grid_name_2, neighbors_quantity, distance_max) ==
    IF grid_name_1 \notin DOMAIN reg \/ grid_name_2 \notin DOMAIN reg
    THEN {[res |-> "KeyError", reg |-> reg]}
    ELSE LET grid_1 == objs[reg[grid_name_1].grid]
             grid_2 == objs[reg[grid_name_2].grid]
         IN IF Len(grid_1) = 0 \/ Len(grid_2) = 0
            THEN \* min() of an empty coordinate list
                 {[res |-> "ValueError", reg |-> reg]}
            ELSE IF neighbors_quantity = 1
            THEN \* query answers with one number per point: len(dist[i]) fails
                 {[res |-> "TypeError", reg |-> reg]}
            ELSE {[res |-> "True",
                   reg |-> [reg EXCEPT ![grid_name_2].transform =
                        [s \in (DOMAIN reg[grid_name_2].transform) \cup {grid_name_1} |->
                            IF s = grid_name_1
                            THEN transform_dict(NodeKeys(grid_1), NodeKeys(grid_2),
                                                answers, distance_max)
                            ELSE reg[grid_name_2].transform[s]]]] :
                  answers \in QueryAll(get_coordinates_array(grid_1),
                                       get_coordinates_array(grid_2),
                                       neighbors_quantity, Len(grid_2))}

FindNearestNeighbors(call) ==
    \E r \in find_nearest_neighbors(grids, gridObjs, call.src, call.tgt,
                                    call.neighbors_quantity, call.distance_max) :
       /\ grids' = r.reg
       /\ last' = Call("find_nearest_neighbors", call.src, call.tgt, "", 0,
                       call.neighbors_quantity, call.distance_max, r.res)
       /\ UNCHANGED <<gridObjs, transitions, handler>>

Transition(src_grid_name, value_name, target_grid_name) ==
    LET r == transition(grids, gridObjs, src_grid_name, value_name, target_grid_name)
    IN /\ transitions < MaxTransitions
       /\ gridObjs' = r.objs
       /\ last' = Call("transition", src_grid_name, target_grid_name, value_name,
                       0, 0, 0, r.res)
       /\ transitions' = IF r.res = "True" THEN transitions + 1 ELSE transitions
       /\ UNCHANGED <<grids, handler>>

Next ==
    \/ \E call \in InitCalls : InitiateGrid(call)
    \/ \E call \in SetCalls : SetNodeValues(call)
    \/ \E call \in AddCalls : AddGrid(call.gid, call.grid_name)
    \/ \E call \in UpdateCalls : UpdateGrid(call.gid, call.grid_name)
    \/ \E call \in FnnCalls : FindNearestNeighbors(call)
    \/ \E call \in TransitionCalls :
            Transition(call.src, call.value_name, call.tgt)

Spec == Init /\ [][Next]_vars

-----------------------------------------------------------------------------
(* What the claims are stated with *)

\* the value a node stores for a field
Missing == [k |-> "missing", n |-> 0, d |-> 1]
StoredValue(node, value_name) ==
    IF value_name \in DOMAIN node.values THEN node.values[value_name] ELSE Missing

\* the Grid object registered under a name
GridOf(reg, objs, name) == objs[reg[name].grid]

HasMap(reg, s, t) == s \in DOMAIN reg /\ t \in DOMAIN reg /\ s \in DOMAIN reg[t].transform

\* sum(value_i / distance_i) and sum(1 / distance_i) over a neighbor list,
\* value_i being the value the source grid stores for the node entry i names
RECURSIVE SumValueOverDistance(_, _, _, _)
SumValueOverDistance(nbrs, src, value_name, j) ==
    IF j > Len(nbrs) THEN Num(0)
    ELSE FAdd(FDivDist(StoredValue(NodeOf(src, nbrs[j].node_number), value_name),
                       nbrs[j].distance),
              SumValueOverDistance(nbrs, src, value_name, j + 1))

RECURSIVE SumOneOverDistance(_, _)
SumOneOverDistance(nbrs, j) ==
    IF j > Len(nbrs) THEN Num(0)
    ELSE FAdd(FDivDist(Num(1), nbrs[j].distance), SumOneOverDistance(nbrs, j + 1))

InverseDistanceAverage(nbrs, src, value_name) ==
    FDiv(SumValueOverDistance(nbrs, src, value_name, 1), SumOneOverDistance(nbrs, 1))

\* every entry of the list names a node of src that stores a number for the field
NamesNumbers(nbrs, src, value_name) ==
    \A j \in 1..Len(nbrs) :
        /\ nbrs[j].node_number \in NodeNumbers(src)
        /\ StoredValue(NodeOf(src, nbrs[j].node_number), value_name).k = "num"

\* the names Node.get_value answers with a coordinate
CoordinateNames == {"x", "y", "z", "x_coordinate", "y_coordinate", "z_coordinate"}

\* what the completeness check leaves of a value
Completed(v) == IF Truthy(v) THEN v ELSE NaN

\* both names are registered and the map kept for (s -> t) fits the grids as
\* they are: its items are nodes of t, its entries name nodes of s
MapFits(reg, objs, s, t) ==
    /\ HasMap(reg, s, t)
    /\ LET map == reg[t].transform[s]
       IN \A i \in 1..Len(map) :
            /\ map[i].node \in NodeNumbers(GridOf(reg, objs, t))
            /\ \A j \in 1..Len(map[i].nbrs) :
                  map[i].nbrs[j].node_number \in NodeNumbers(GridOf(reg, objs, s))

\* the call recorded in last was a transition that returned normally
TransitionReturned == last.op = "transition" /\ last.res = "True"

-----------------------------------------------------------------------------
(* C1 .. C10: the transfer engine *)

\* C1: when transition(S, F, T) returns, every target node whose cached
\* neighbor list is non-null holds sum(value_i / distance_i) / sum(1 / distance_i)
\* over the list, value_i being the F value the source node named in entry i
\* held at the call (any number, 0 included).
C1_WeightedAverage ==
    [][(last'.op = "transition" /\ last'.res = "True") =>
        LET src == GridOf(grids, gridObjs, last'.src)
            tgt == GridOf(grids, gridObjs', last'.tgt)
            map == grids[last'.tgt].transform[last'.src]
        IN \A i \in 1..Len(map) :
            (~map[i].lonely /\ NamesNumbers(map[i].nbrs, src, last'.field)) =>
                StoredValue(NodeOf(tgt, map[i].node), last'.field)
                    = InverseDistanceAverage(map[i].nbrs, src, last'.field)]_vars

\* C2: after find_nearest_neighbors(S, T, k, dmax) every entry stored for a
\* target node t names a node of S whose Euclidean distance to t is the
\* distance of the entry, and the entries of t are the k nearest nodes of S
\* among those within dmax of t.
C2_EntriesAreNearest ==
    (last.op = "find_nearest_neighbors" /\ last.res = "True") =>
        LET src == GridOf(grids, gridObjs, last.src)
            tgt == GridOf(grids, gridObjs, last.tgt)
            map == grids[last.tgt].transform[last.src]
            k == last.neighbors_quantity
        IN \A i \in 1..Len(map) :
            LET t == Coordinates(NodeOf(tgt, map[i].node))
                dist(s) == Distance(Coordinates(NodeOf(src, s)), t)
                nbrs == map[i].nbrs
                named == {nbrs[j].node_number : j \in 1..Len(nbrs)}
                nearest == {s \in NodeNumbers(src) :
                               Cardinality({o \in NodeNumbers(src) : dist(o) < dist(s)}) < k}
                within == {s \in nearest : last.distance_max = Inf
                                              \/ dist(s) <= last.distance_max}
            IN /\ \A j \in 1..Len(nbrs) :
                     /\ nbrs[j].node_number \in NodeNumbers(src)
                     /\ nbrs[j].distance = dist(nbrs[j].node_number)
               /\ Cardinality(named) = Len(nbrs)
               /\ named \subseteq within
               /\ Cardinality(named) = (IF Cardinality(within) < k
                                        THEN Cardinality(within) ELSE k)

\* C3: find_nearest_neighbors with neighbors_quantity = 1 on two registered
\* non-empty grids returns normally and stores for every target node a list
\* of exactly one entry, or the no-neighbor marker.
C3_OneNeighbor ==
    (/\ last.op = "find_nearest_neighbors"
     /\ last.neighbors_quantity = 1
     /\ last.src \in DOMAIN grids /\ last.tgt \in DOMAIN grids
     /\ Len(GridOf(grids, gridObjs, last.src)) > 0
     /\ Len(GridOf(grids, gridObjs, last.tgt)) > 0) =>
        /\ last.res = "True"
        /\ HasMap(grids, last.src, last.tgt)
        /\ LET map == grids[last.tgt].transform[last.src]
           IN /\ Len(map) = Len(GridOf(grids, gridObjs, last.tgt))
              /\ \A i \in 1..Len(map) : map[i].lonely \/ Len(map[i].nbrs) = 1

\* the grid the call recorded in last has written
WrittenGrid ==
    IF last.op = "transition" THEN GridOf(grids, gridObjs, last.tgt)
    ELSE gridObjs[last.gid]

\* get_node_values(F) of the written grid has an entry, a number or NaN, for
\* every node of that grid
WrittenComplete ==
    LET m == get_node_values(WrittenGrid, last.field)
    IN /\ DOMAIN m = NodeNumbers(WrittenGrid)
       /\ \A n \in DOMAIN m : m[n].k \in {"num", "nan"}

C5_LonelyNodes ==
    /\ (/\ last.op = "find_nearest_neighbors"
        /\ last.neighbors_quantity >= 2
        /\ last.src \in DOMAIN grids /\ last.tgt \in DOMAIN grids
        /\ Len(GridOf(grids, gridObjs, last.src)) > 0
        /\ Len(GridOf(grids, gridObjs, last.tgt)) > 0) =>
            /\ last.res = "True"
            /\ LET src == GridOf(grids, gridObjs, last.src)
                   tgt == GridOf(grids, gridObjs, last.tgt)
                   map == grids[last.tgt].transform[last.src]
               IN \A i \in 1..Len(map) :
                    (/\ last.distance_max # Inf
                     /\ \A n \in 1..Len(src) :
                           Distance(Coordinates(src[n]),
                                    Coordinates(NodeOf(tgt, map[i].node)))
                               > last.distance_max)
                        => map[i].lonely
    /\ (TransitionReturned /\ grids[last.src].grid # grids[last.tgt].grid) =>
            LET src == GridOf(grids, gridObjs, last.src)
                tgt == GridOf(grids, gridObjs, last.tgt)
                map == grids[last.tgt].transform[last.src]
            IN \A i \in 1..Len(map) :
                 map[i].node \in NodeNumbers(tgt) =>
                    LET v == StoredValue(NodeOf(tgt, map[i].node), last.field)
                    IN IF map[i].lonely THEN v = NaN
                       ELSE NamesNumbers(map[i].nbrs, src, last.field) => v.k = "num"

\* a transition between two grids has returned and a target node its map
\* marks as having no neighbor holds a number
C5_Witness ==
    /\ TransitionReturned
    /\ grids[last.src].grid # grids[last.tgt].grid
    /\ \E i \in 1..Len(grids[last.tgt].transform[last.src]) :
          LET item == grids[last.tgt].transform[last.src][i]
          IN /\ item.lonely
             /\ item.node \in NodeNumbers(WrittenGrid)
             /\ StoredValue(NodeOf(WrittenGrid, item.node), last.field).k = "num"

\* C6: transition raises KeyError, and changes no node value of any grid and
\* no cached neighbor map, when the source name or the target name is not
\* registered or no map is kept for exactly the pair (source -> target); a
\* map kept for (target -> source) does not make the call legal.
C6_IllegalTransition ==
    [][(/\ last'.op = "transition"
        /\ ~HasMap(grids, last'.src, last'.tgt)) =>
            /\ last'.res = "KeyError"
            /\ gridObjs' = gridObjs
            /\ grids' = grids]_vars

\* transition(A, p, B) has raised KeyError on a source that holds values of
\* p, with a map kept for (B -> A) and none for (A -> B)
C6_Witness ==
    /\ last.op = "transition" /\ last.res = "KeyError"
    /\ HasMap(grids, last.tgt, last.src)
    /\ ~HasMap(grids, last.src, last.tgt)
    /\ \E n \in 1..Len(GridOf(grids, gridObjs, last.src)) :
          StoredValue(GridOf(grids, gridObjs, last.src)[n], last.field).k = "num"

\* C7: transition(S, F, T) raises KeyError when no node of the source grid
\* holds a value for F, and then writes nothing to the target grid.
C7_FieldNeverSet ==
    [][(/\ last'.op = "transition"
        /\ last'.src \in DOMAIN grids /\ last'.tgt \in DOMAIN grids
        /\ \A n \in 1..Len(GridOf(grids, gridObjs, last'.src)) :
              last'.field \notin DOMAIN GridOf(grids, gridObjs, last'.src)[n].values) =>
            /\ last'.res = "KeyError"
            /\ GridOf(grids, gridObjs', last'.tgt) = GridOf(grids, gridObjs, last'.tgt)]_vars

C9_Idempotent ==
    [][(last'.op = "transition" /\ last'.repeat /\ last'.res = "True") =>
        LET before == GridOf(grids, gridObjs, last'.tgt)
            after == GridOf(grids, gridObjs', last'.tgt)
        IN /\ Len(after) = Len(before)
           /\ \A n \in 1..Len(before) :
                StoredValue(after[n], last'.field)
                    = StoredValue(before[n], last'.field)]_vars

\* the same transition has returned twice in a row and the target holds a
\* number
C9_Witness ==
    /\ TransitionReturned
    /\ last.repeat
    /\ \E n \in 1..Len(WrittenGrid) :
          StoredValue(WrittenGrid[n], last.field).k = "num"

\* C10 as stated: transition(S, F, T) never modifies the source grid, for any
\* registered S and T with a cached map.
C10_SourceNeverModified ==
    [][(/\ last'.op = "transition"
        /\ HasMap(grids, last'.src, last'.tgt)) =>
            GridOf(grids, gridObjs', last'.src) = GridOf(grids, gridObjs, last'.src)]_vars

\* C10 amended: transition(S, F, T) leaves the grid of S as it was, in
\* coordinates and in the values of every field, when S and T are registered
\* with different Grid objects.
C10_SourceUntouched ==
    [][(/\ last'.op = "transition"
        /\ last'.src \in DOMAIN grids /\ last'.tgt \in DOMAIN grids
        /\ grids[last'.src].grid # grids[last'.tgt].grid) =>
            GridOf(grids, gridObjs', last'.src) = GridOf(grids, gridObjs, last'.src)]_vars

\* a transition between two different Grid objects has returned and has left
\* a number on the target that the source does not hold
C10_Witness ==
    /\ TransitionReturned
    /\ grids[last.src].grid # grids[last.tgt].grid
    /\ \E n \in 1..Len(WrittenGrid) :
          /\ StoredValue(WrittenGrid[n], last.field).k = "num"
          /\ \A m \in 1..Len(GridOf(grids, gridObjs, last.src)) :
                StoredValue(GridOf(grids, gridObjs, last.src)[m], last.field)
                    # StoredValue(WrittenGrid[n], last.field)

-----------------------------------------------------------------------------
(* A driver for the weighting: one transfer from a source grid of two      *)
(* nodes to a target grid of one node, over the values and positions of    *)
(* WeightValues and WeightPositions                                        *)

\* the values of the two source nodes
WeightValues == {-4, 1, 10}

\* the x coordinate of the target node, between the source nodes at 0 and 10
WeightPositions == {2, 5}

WeightInitCalls ==
    {[gid |-> 1,
      data_set |-> <<[node_number |-> 1, x_coordinate |-> 0, y_coordinate |-> 0,
                      value |-> Num(v1)],
                     [node_number |-> 2, x_coordinate |-> 10, y_coordinate |-> 0,
                      value |-> Num(v2)]>>,
      value_name |-> "p", clear_first |-> TRUE] : v1, v2 \in WeightValues}
    \cup
    {[gid |-> 2,
      data_set |-> <<[node_number |-> 1, x_coordinate |-> x, y_coordinate |-> 0]>>,
      value_name |-> "", clear_first |-> TRUE] : x \in WeightPositions}

WeightFnnCalls ==
    {[src |-> "A", tgt |-> "B", neighbors_quantity |-> 2, distance_max |-> Inf]}

WeightNext ==
    \/ \E call \in WeightInitCalls : InitiateGrid(call)
    \/ \E call \in AddCalls : AddGrid(call.gid, call.grid_name)
    \/ \E call \in WeightFnnCalls : FindNearestNeighbors(call)
    \/ Transition("A", "p", "B")

WeightSpec == Init /\ [][WeightNext]_vars

\* a < b for two finite values
Less(a, b) == a.n * b.d < b.n * a.d

\* C11: for a target node with exactly two neighbors at distances d1 # d2,
\* both > 0, whose source nodes hold numbers v1 # v2, the value the node holds
\* when transition returns is (v1/d1 + v2/d2) / (1/d1 + 1/d2) and lies
\* strictly between min(v1, v2) and max(v1, v2).
C11_TwoNeighbors ==
    [][(last'.op = "transition" /\ last'.res = "True") =>
        LET src == GridOf(grids, gridObjs, last'.src)
            tgt == GridOf(grids, gridObjs', last'.tgt)
            map == grids[last'.tgt].transform[last'.src]
        IN \A i \in 1..Len(map) :
            LET nbrs == map[i].nbrs
                d(j) == nbrs[j].distance
                v(j) == StoredValue(NodeOf(src, nbrs[j].node_number), last'.field)
                w == StoredValue(NodeOf(tgt, map[i].node), last'.field)
            IN (/\ Len(nbrs) = 2
                /\ d(1) # d(2) /\ d(1) > 0 /\ d(2) > 0
                /\ NamesNumbers(nbrs, src, last'.field)
                /\ v(1) # v(2)) =>
                    /\ w = FDiv(FAdd(FDivDist(v(1), d(1)), FDivDist(v(2), d(2))),
                                FAdd(FDivDist(Num(1), d(1)), FDivDist(Num(1), d(2))))
                    /\ w.k = "num"
                    /\ \/ Less(v(1), w) /\ Less(w, v(2))
                       \/ Less(v(2), w) /\ Less(w, v(1))]_vars

\* a transition has returned and a target node with two neighbors at
\* different distances > 0, whose source nodes hold different numbers, holds
\* a number strictly between them
C11_Witness ==
    /\ TransitionReturned
    /\ \E i \in 1..Len(grids[last.tgt].transform[last.src]) :
          LET nbrs == grids[last.tgt].transform[last.src][i].nbrs
              src == GridOf(grids, gridObjs, last.src)
              w == StoredValue(NodeOf(WrittenGrid,
                                      grids[last.tgt].transform[last.src][i].node),
                               last.field)
          IN /\ Len(nbrs) = 2
             /\ nbrs[1].distance # nbrs[2].distance
             /\ nbrs[1].distance > 0 /\ nbrs[2].distance > 0
             /\ NamesNumbers(nbrs, src, last.field)
             /\ w.k = "num"
             /\ \E j, l \in 1..2 :
                   /\ Less(StoredValue(NodeOf(src, nbrs[j].node_number), last.field), w)
                   /\ Less(w, StoredValue(NodeOf(src, nbrs[l].node_number), last.field))

-----------------------------------------------------------------------------
(* A driver for one Grid object (gridObjs[1]): initiate_grid,              *)
(* set_node_values and add_node, each call recorded with its arguments     *)

\* what Grid.add_node returns: 0 for a node it has added; for a node_number
\* that exists it logs an error, raises nothing and returns None
add_node_returns(grid, node_number) ==
    IF node_number \in NodeNumbers(grid) THEN "None" ELSE "0"

\* data sets of the initiate_grid calls
RowsMixed ==
    <<[node_number |-> 1, x_coordinate |-> 0, y_coordinate |-> 0, value |-> Num(10)],
      [x_coordinate |-> 3, y_coordinate |-> 4, value |-> Num(20)]>>
RowsNoX ==
    <<[node_number |-> 5, x_coordinate |-> 1, y_coordinate |-> 1, value |-> Num(1)],
      [y_coordinate |-> 2]>>

RowsNoY ==
    <<[node_number |-> 6, x_coordinate |-> 2, value |-> Num(3)]>>

GridInitCalls ==
    {[data_set |-> RowsA, value_name |-> "p", clear_first |-> TRUE],
     [data_set |-> RowsNoY, value_name |-> "p", clear_first |-> FALSE],
     [data_set |-> RowsC, value_name |-> "", clear_first |-> TRUE],
     [data_set |-> RowsC, value_name |-> "", clear_first |-> FALSE],
     [data_set |-> RowsMixed, value_name |-> "", clear_first |-> TRUE],
     [data_set |-> RowsNoX, value_name |-> "p", clear_first |-> TRUE]}

GridSetCalls ==
    {[value_name |-> "p", node_dict |-> (1 :> Num(30))],
     [value_name |-> "p", node_dict |-> (1 :> Num(0) @@ 2 :> None)],
     [value_name |-> "p", node_dict |-> (1 :> Num(5) @@ 9 :> Num(6))],
     [value_name |-> "q", node_dict |-> (0 :> Num(4))]}

GridAddCalls ==
    {[node_number |-> 1, x |-> 7, y |-> 7, z |-> NoZ, values |-> EmptyDict],
     [node_number |-> 3, x |-> 1, y |-> 1, z |-> Z(2), values |-> [p |-> Num(2)]]}

GridInit ==
    /\ gridObjs = [g \in GridIds |-> <<>>]
    /\ grids = [n \in {} |-> 0]
    /\ last = [op |-> "init", call |-> <<>>, res |-> ""]
    /\ transitions = 0
    /\ handler = NoHandler

\* grid.initiate_grid(data_set, value_name, clear_first)
GridInitiate(call) ==
    LET r == initiate_grid(gridObjs[1], call.data_set, call.value_name,
                           call.clear_first)
    IN /\ gridObjs' = [gridObjs EXCEPT ![1] = r.grid]
       /\ last' = [op |-> "initiate_grid", call |-> call, res |-> r.res]
       /\ UNCHANGED <<grids, transitions, handler>>

\* grid.set_node_values(value_name, node_dict)
GridSetValues(call) ==
    LET r == set_node_values(gridObjs[1], call.value_name, call.node_dict)
    IN /\ gridObjs' = [gridObjs EXCEPT ![1] = r.grid]
       /\ last' = [op |-> "set_node_values", call |-> call, res |-> r.res]
       /\ UNCHANGED <<grids, transitions, handler>>

\* grid.add_node(node_number, x, y, z, values)
GridAddNode(call) ==
    /\ gridObjs' = [gridObjs EXCEPT ![1] =
                        add_node(gridObjs[1], call.node_number, call.x, call.y,
                                 call.z, call.values)]
    /\ last' = [op |-> "add_node", call |-> call,
                res |-> add_node_returns(gridObjs[1], call.node_number)]
    /\ UNCHANGED <<grids, transitions, handler>>

GridNext ==
    \/ \E call \in GridInitCalls : GridInitiate(call)
    \/ \E call \in GridSetCalls : GridSetValues(call)
    \/ \E call \in GridAddCalls : GridAddNode(call)

GridSpec == GridInit /\ [][GridNext]_vars

-----------------------------------------------------------------------------
(* C12 .. C14, C17, C19, C20: one Grid *)

\* the nodes of a grid that hold a number or NaN for a field
Holders(grid, value_name) ==
    {grid[i].node_number : i \in
        {j \in 1..Len(grid) : StoredValue(grid[j], value_name).k \in {"num", "nan"}}}

\* C12: set_node_values(F, m) with every key of m a node of the grid leaves
\* each node n of m with the number m[n] for F, 0 included, and
\* get_node_values(F) answers m[n] for it; of the other nodes only those that
\* lack F are given NaN, the rest keep their value.
C12_WriteThrough ==
    [][(last'.op = "set_node_values" /\ last'.res = "True") =>
        LET m == last'.call.node_dict
            F == last'.call.value_name
            before == gridObjs[1]
            after == gridObjs'[1]
            got == get_node_values(after, F)
        IN /\ Len(after) = Len(before)
           /\ \A i \in 1..Len(before) :
                LET n == before[i].node_number
                IN /\ after[i].node_number = n
                   /\ (n \in DOMAIN m /\ m[n].k = "num") =>
                         /\ StoredValue(after[i], F) = m[n]
                         /\ n \in DOMAIN got /\ got[n] = m[n]
                   /\ (n \notin DOMAIN m) =>
                         StoredValue(after[i], F) =
                            (IF F \in DOMAIN before[i].values
                             THEN before[i].values[F] ELSE NaN)]_vars

\* C13: set_node_values(F, m) with a key that is not a node of the grid
\* raises an error and changes no value of any node.
C13_UnknownKey ==
    [][(/\ last'.op = "set_node_values"
        /\ \E n \in DOMAIN last'.call.node_dict : n \notin NodeNumbers(gridObjs[1])) =>
            /\ last'.res = "ValueError"
            /\ gridObjs' = gridObjs]_vars

\* set_node_values has raised for a mapping with a key the grid knows and a
\* key it does not know
C13_Witness ==
    /\ last.op = "set_node_values" /\ last.res = "ValueError"
    /\ \E n \in DOMAIN last.call.node_dict : n \in NodeNumbers(gridObjs[1])
    /\ \E n \in DOMAIN last.call.node_dict : n \notin NodeNumbers(gridObjs[1])

\* C14: get_node_values(F) has an entry exactly for the nodes that hold F as
\* a number, and is empty when no node of the grid holds F.
C14_EntriesForHolders ==
    \A F \in {"p", "q", "data"} :
        DOMAIN get_node_values(gridObjs[1], F) = Holders(gridObjs[1], F)

-----------------------------------------------------------------------------
(* A driver for the registry: every Grid object under every name *)

RegistryCalls == [gid : GridIds, grid_name : GridNames]

RegistryNext ==
    \/ \E call \in InitCalls : InitiateGrid(call)
    \/ \E call \in RegistryCalls : AddGrid(call.gid, call.grid_name)
    \/ \E call \in RegistryCalls : UpdateGrid(call.gid, call.grid_name)
    \/ \E call \in FnnCalls : FindNearestNeighbors(call)

RegistrySpec == Init /\ [][RegistryNext]_vars

\* the entry add_grid and update_grid store: the grid and no neighbor map
FreshEntry(gid) == [grid |-> gid, transform |-> [s \in {} |-> <<>>]]

\* C15: update_grid(g, name) raises KeyError and leaves the registry alone
\* when name is not registered; when name is registered it returns normally,
\* the grid under name is g and no neighbor map is kept under name.
C15_UpdateGrid ==
    [][(last'.op = "update_grid") =>
        IF last'.tgt \notin DOMAIN grids
        THEN last'.res = "KeyError" /\ grids' = grids
        ELSE /\ last'.res = "True"
             /\ DOMAIN grids' = DOMAIN grids
             /\ grids'[last'.tgt] = FreshEntry(last'.gid)
             /\ \A n \in DOMAIN grids : n # last'.tgt => grids'[n] = grids[n]]_vars

\* C16: add_grid(g, name) raises KeyError when name is registered and leaves
\* the grid under name and its neighbor maps as they are; for a new name it
\* stores g; no add_grid changes the grid a registered name refers to.
C16_AddGrid ==
    [][(last'.op = "add_grid") =>
        /\ IF last'.tgt \in DOMAIN grids
           THEN last'.res = "KeyError" /\ grids' = grids
           ELSE /\ last'.res = "True"
                /\ DOMAIN grids' = DOMAIN grids \cup {last'.tgt}
                /\ grids'[last'.tgt] = FreshEntry(last'.gid)
        /\ \A n \in DOMAIN grids :
              n \in DOMAIN grids' /\ grids'[n].grid = grids[n].grid]_vars

\* add_grid has raised KeyError for a name that is registered with another
\* Grid object and keeps a neighbor map
C16_Witness ==
    /\ last.op = "add_grid" /\ last.res = "KeyError"
    /\ last.tgt \in DOMAIN grids
    /\ grids[last.tgt].grid # last.gid
    /\ DOMAIN grids[last.tgt].transform # {}

-----------------------------------------------------------------------------
(* C17, C19, C20: adding nodes to one Grid *)

\* C17: add_node with a node_number the grid has does not return normally,
\* and the grid keeps its nodes, their coordinates and their values.
C17_DuplicateNode ==
    [][(/\ last'.op = "add_node"
        /\ last'.call.node_number \in NodeNumbers(gridObjs[1])) =>
            /\ last'.res \notin {"0", "None"}
            /\ gridObjs' = gridObjs]_vars

\* the node a record of a data set describes: its node_number or else the
\* zero-based position i - 1, its coordinates, and its values map or else
\* its value under value_name (under 'data' without a value_name)
RowNode(row, i, value_name) ==
    Node(IF "node_number" \in DOMAIN row THEN row.node_number ELSE i - 1,
         row.x_coordinate,
         row.y_coordinate,
         IF "z_coordinate" \in DOMAIN row THEN Z(row.z_coordinate) ELSE NoZ,
         IF "values" \in DOMAIN row THEN row.values
         ELSE IF "value" \in DOMAIN row
              THEN [f \in {IF value_name # "" THEN value_name ELSE "data"} |-> row.value]
              ELSE EmptyDict)

\* C19: when initiate_grid(rows) reports success, every record of rows is a
\* node of the grid: numbered by its node_number or else by its zero-based
\* position, with the coordinates and the value or values of the record.
C19_RecordsBecomeNodes ==
    [][(last'.op = "initiate_grid" /\ last'.res = "True") =>
        LET rows == last'.call.data_set
            after == gridObjs'[1]
        IN \A i \in 1..Len(rows) :
              \E n \in 1..Len(after) :
                  after[n] = RowNode(rows[i], i, last'.call.value_name)]_vars

\* C20: when initiate_grid(rows) reports success with clear_first, the grid
\* holds one node per record and each is the node its record describes (no
\* node of before remains); without clear_first every node of before is kept.
C20_ClearFirst ==
    [][(last'.op = "initiate_grid" /\ last'.res = "True") =>
        LET rows == last'.call.data_set
            before == gridObjs[1]
            after == gridObjs'[1]
        IN IF last'.call.clear_first
           THEN /\ Len(after) = Len(rows)
                /\ \A n \in 1..Len(after) :
                      \E i \in 1..Len(rows) :
                          after[n] = RowNode(rows[i], i, last'.call.value_name)
           ELSE \A j \in 1..Len(before) :
                   \E n \in 1..Len(after) : after[n] = before[j]]_vars

-----------------------------------------------------------------------------
(* C18: the shape of a stored neighbor map *)

-----------------------------------------------------------------------------
(* C21: records without a coordinate *)

\* a record that has both mandatory coordinates
HasCoordinates(row) == {"x_coordinate", "y_coordinate"} \subseteq DOMAIN row

\* C21: initiate_grid on a data set with a record that lacks x_coordinate or
\* y_coordinate does not report success, and every node of the grid after
\* the call was there before it or is the node of a record that has both
\* coordinates: no node stands for the incomplete record.
C21_MissingCoordinate ==
    [][(/\ last'.op = "initiate_grid"
        /\ \E i \in 1..Len(last'.call.data_set) :
                ~HasCoordinates(last'.call.data_set[i])) =>
        LET rows == last'.call.data_set
            before == gridObjs[1]
            after == gridObjs'[1]
        IN /\ last'.res = "False"
           /\ \A n \in 1..Len(after) :
                 \/ \E j \in 1..Len(before) : after[n] = before[j]
                 \/ \E i \in 1..Len(rows) :
                       /\ HasCoordinates(rows[i])
                       /\ after[n] = RowNode(rows[i], i, last'.call.value_name)]_vars

\* a rejected data set whose complete first record is in the grid
C21_Witness ==
    /\ last.op = "initiate_grid"
    /\ last.res = "False"
    /\ \E i \in 1..Len(last.call.data_set) : ~HasCoordinates(last.call.data_set[i])
    /\ Len(gridObjs[1]) >= 1

-----------------------------------------------------------------------------
(* GridTransformer.transformation_validation                               *)

\* what the try block of transformation_validation answers once both
\* transitions have returned: the statistics (numpy) and the plot
\* (matplotlib, plt.show) follow, and an exception of theirs is caught like
\* any other, so the call returns True or False
AfterTransitions == {"True", "False"}

\* transformation_validation keeping the source grid as it was at the call
transformation_validation_read_only(reg, objs, src_grid_name, value_name, target_grid_name) ==
    IF src_grid_name \notin DOMAIN reg \/ target_grid_name \notin DOMAIN reg
    THEN {[res |-> "False", objs |-> objs]}
    ELSE LET there == transition(reg, objs, src_grid_name, value_name, target_grid_name)
         IN {[res |-> r,
              objs |-> [there.objs EXCEPT ![reg[src_grid_name].grid] =
                                            objs[reg[src_grid_name].grid]]] :
                r \in AfterTransitions}

\* GridTransformer.transformation_validation on the registry reg and the heap
\* objs: the possible outcomes, each the answer and the heap after the call.
\* Every exception inside the try block is logged and answered with False:
\* the KeyError of an unregistered name, the AttributeError of
\* get_node_values(...).values() when no source node has a value (False is
\* returned instead of a dict), and whatever one of the two transitions raises.
transformation_validation(reg, objs, src_grid_name, value_name, target_grid_name) ==
    IF src_grid_name \notin DOMAIN reg
    THEN {[res |-> "False", objs |-> objs]}
    ELSE IF DOMAIN get_node_values(objs[reg[src_grid_name].grid], value_name) = {}
    THEN {[res |-> "False", objs |-> objs]}
    ELSE IF target_grid_name \notin DOMAIN reg
    THEN {[res |-> "False", objs |-> objs]}
    ELSE LET there == transition(reg, objs, src_grid_name, value_name, target_grid_name)
             back == transition(reg, there.objs, target_grid_name, value_name,
                                src_grid_name)
         IN IF there.res # "True" THEN {[res |-> "False", objs |-> there.objs]}
            ELSE IF back.res # "True" THEN {[res |-> "False", objs |-> back.objs]}
            ELSE {[res |-> r, objs |-> back.objs] : r \in AfterTransitions}

\* the find_nearest_neighbors and transformation_validation calls of a
\* validation run
ValidationFnnCalls ==
    {[src |-> "A", tgt |-> "B", neighbors_quantity |-> 2, distance_max |-> Inf],
     [src |-> "B", tgt |-> "A", neighbors_quantity |-> 2, distance_max |-> Inf],
     [src |-> "A", tgt |-> "B", neighbors_quantity |-> 2, distance_max |-> 6],
     [src |-> "A", tgt |-> "A", neighbors_quantity |-> 2, distance_max |-> Inf]}

ValidationCalls ==
    {[src |-> "A", value_name |-> "p", tgt |-> "B"],
     [src |-> "B", value_name |-> "p", tgt |-> "A"],
     [src |-> "A", value_name |-> "q", tgt |-> "B"],
     [src |-> "A", value_name |-> "p", tgt |-> "A"]}

\* the number of validation runs that write a grid
MaxValidations == 1

\* transformer.transformation_validation(src_grid_name, value_name,
\* target_grid_name); transitions counts the runs that have written a grid
TransformationValidation(call) ==
    \E r \in transformation_validation(grids, gridObjs, call.src, call.value_name,
                                       call.tgt) :
       /\ transitions < MaxValidations
       /\ gridObjs' = r.objs
       /\ last' = Call("transformation_validation", call.src, call.tgt,
                       call.value_name, 0, 0, 0, r.res)
       /\ transitions' = IF gridObjs' # gridObjs THEN transitions + 1 ELSE transitions
       /\ UNCHANGED <<grids, handler>>

ValidationNext ==
    \/ \E call \in InitCalls : InitiateGrid(call)
    \/ \E call \in AddCalls : AddGrid(call.gid, call.grid_name)
    \/ \E call \in ValidationFnnCalls : FindNearestNeighbors(call)
    \/ \E call \in ValidationCalls : TransformationValidation(call)

ValidationSpec == Init /\ [][ValidationNext]_vars

-----------------------------------------------------------------------------
(* C22, C30: validation runs *)

\* the first transition of a validation run on (reg, objs), and the second
\* on the heap the first has left
There(reg, objs, s, f, t) == transition(reg, objs, s, f, t)
Back(reg, objs, s, f, t) == transition(reg, There(reg, objs, s, f, t).objs, t, f, s)

\* C22: when one of the two transitions of transformation_validation(S, F, T)
\* raises, the call does not return: the error reaches its caller.
C22_ErrorsPropagate ==
    [][(/\ last'.op = "transformation_validation"
        /\ \/ There(grids, gridObjs, last'.src, last'.field, last'.tgt).res # "True"
           \/ Back(grids, gridObjs, last'.src, last'.field, last'.tgt).res # "True") =>
            last'.res \notin {"True", "False"}]_vars


\* C30: after a transformation_validation(S, F, T) in which both transitions
\* succeed, every node of T holds for F the value the transfer from S has
\* given it, and every node of S whose neighbor list in the (T -> S) map
\* is non-null holds for F the weighted average of the values T held after
\* that transfer, as the completeness check leaves it: S is written.
C30_NotReadOnly ==
    [][(last'.op = "transformation_validation") =>
        \A there \in {There(grids, gridObjs, last'.src, last'.field, last'.tgt)} :
        \A back \in {transition(grids, there.objs, last'.tgt, last'.field, last'.src)} :
            (there.res = "True" /\ back.res = "True") =>
                \A transferred \in {GridOf(grids, there.objs, last'.tgt)} :
                \A values \in {get_node_values(transferred, last'.field)} :
                    LET f == last'.field
                        T == GridOf(grids, gridObjs', last'.tgt)
                        S == GridOf(grids, gridObjs', last'.src)
                        map == grids[last'.src].transform[last'.tgt]
                    IN /\ \A n \in NodeNumbers(T) :
                             StoredValue(NodeOf(T, n), f)
                                = StoredValue(NodeOf(transferred, n), f)
                       /\ \A i \in 1..Len(map) :
                             ~map[i].lonely =>
                                StoredValue(NodeOf(S, map[i].node), f) =
                                    Completed(weighted_sums(map[i].nbrs, values,
                                                            1, Num(0), Num(0)).val)]_vars

\* a validation run of ('A', 'p', 'B') has returned and node 1 of A, loaded
\* with p = 10, holds the round-tripped 15
C30_Witness ==
    /\ last.op = "transformation_validation"
    /\ last.res = "True"
    /\ last.src = "A" /\ last.tgt = "B" /\ last.field = "p"
    /\ 1 \in NodeNumbers(GridOf(grids, gridObjs, "A"))
    /\ StoredValue(NodeOf(GridOf(grids, gridObjs, "A"), 1), "p") = Num(15)

-----------------------------------------------------------------------------
(* Rotation of a grid (Node.z_rotation, Grid.z_rotation)                   *)

\* the coordinates Node.z_rotation assigns, as terms: math.cos and math.sin
\* are applied to angle as it is given, and the products and sums are kept
\* unevaluated.  x, y are the coordinates of the node before the call.
x_rotated(x, y, angle, origin) ==
    [term |-> "x * cos(angle) + y * sin(angle) + origin.x", x |-> x, y |-> y,
     angle |-> angle, origin |-> origin]
y_rotated(x, y, angle, origin) ==
    [term |-> "x * -sin(angle) + y * cos(angle) + origin.y", x |-> x, y |-> y,
     angle |-> angle, origin |-> origin]

\* Node.z_rotation accepting the angle 0
node_z_rotation_zero(node, angle, origin) ==
    IF angle < 0 \/ angle > 360 THEN [res |-> "ValueError", node |-> node]
    ELSE IF ~({"x_coordinate", "y_coordinate"} \subseteq DOMAIN origin)
    THEN [res |-> "KeyError", node |-> node]
    ELSE [res |-> "True",
          node |-> [node EXCEPT !.x = x_rotated(node.x, node.y, angle, origin),
                                !.y = y_rotated(node.x, node.y, angle, origin)]]

\* Node.z_rotation(angle, origin) for an integer angle and a dict origin:
\* the answer and the node after the call.  The last check, `not angle or
\* not origin`, raises ValueError for the angle 0.
node_z_rotation(node, angle, origin) ==
    IF angle < 0 \/ angle > 360 THEN [res |-> "ValueError", node |-> node]
    ELSE IF ~({"x_coordinate", "y_coordinate"} \subseteq DOMAIN origin)
    THEN [res |-> "KeyError", node |-> node]
    ELSE IF angle = 0 \/ DOMAIN origin = {}
    THEN [res |-> "ValueError", node |-> node]
    ELSE [res |-> "True",
          node |-> [node EXCEPT !.x = x_rotated(node.x, node.y, angle, origin),
                                !.y = y_rotated(node.x, node.y, angle, origin)]]

\* Grid.z_rotation from node i on: the nodes are rotated in turn, the first
\* exception ends the call, and a call that reaches the end returns None
RECURSIVE grid_z_rotation(_, _, _, _)
grid_z_rotation(grid, angle, origin, i) ==
    IF i > Len(grid) THEN [res |-> "None", grid |-> grid]
    ELSE LET r == node_z_rotation(grid[i], angle, origin)
         IN IF r.res # "True" THEN [res |-> r.res, grid |-> grid]
            ELSE grid_z_rotation([grid EXCEPT ![i] = r.node], angle, origin, i + 1)

\* the number of rotations that rotate a node
MaxRotations == 2

\* angles in degrees and origins of the z_rotation calls
Angles == {-1, 0, 90, 360, 361}
Origins ==
    {[x_coordinate |-> 0, y_coordinate |-> 0],
     [x_coordinate |-> 5, y_coordinate |-> 0, z_coordinate |-> 1],
     [x_coordinate |-> 0]}

RotationInitCalls ==
    {[data_set |-> RowsA, value_name |-> "p", clear_first |-> TRUE],
     [data_set |-> RowsC, value_name |-> "", clear_first |-> TRUE]}

\* grid.z_rotation(angle, origin)
GridZRotation(angle, origin) ==
    LET r == grid_z_rotation(gridObjs[1], angle, origin, 1)
    IN /\ transitions < MaxRotations
       /\ gridObjs' = [gridObjs EXCEPT ![1] = r.grid]
       /\ last' = [op |-> "z_rotation", call |-> [angle |-> angle, origin |-> origin],
                   res |-> r.res]
       /\ transitions' = IF r.res = "None" /\ Len(r.grid) > 0
                         THEN transitions + 1 ELSE transitions
       /\ UNCHANGED <<grids, handler>>

RotationNext ==
    \/ \E call \in RotationInitCalls : GridInitiate(call)
    \/ \E angle \in Angles, origin \in Origins : GridZRotation(angle, origin)

RotationSpec == GridInit /\ [][RotationNext]_vars

\* C23: z_rotation(angle, origin) raises exactly when angle is outside
\* [0, 360] or origin has no x_coordinate or no y_coordinate; a call that
\* returns has rotated every node; and no call changes the number of nodes,
\* a node's z coordinate, its node_number or its values.
C23_ZRotation ==
    [][(last'.op = "z_rotation") =>
        LET angle == last'.call.angle
            origin == last'.call.origin
            before == gridObjs[1]
            after == gridObjs'[1]
            illegal == \/ angle < 0 \/ angle > 360
                       \/ "x_coordinate" \notin DOMAIN origin
                       \/ "y_coordinate" \notin DOMAIN origin
        IN /\ (last'.res \notin {"None", "True"}) <=> illegal
           /\ Len(after) = Len(before)
           /\ \A n \in 1..Len(after) :
                 /\ after[n].z = before[n].z
                 /\ after[n].node_number = before[n].node_number
                 /\ after[n].values = before[n].values
                 /\ ~illegal =>
                        /\ after[n].x = x_rotated(before[n].x, before[n].y, angle, origin)
                        /\ after[n].y = y_rotated(before[n].x, before[n].y, angle, origin)]_vars


\* a rotation by 0 degrees about a complete origin, on a grid with nodes,
\* has been refused
C23_Witness ==
    /\ last.op = "z_rotation"
    /\ last.call.angle = 0
    /\ {"x_coordinate", "y_coordinate"} \subseteq DOMAIN last.call.origin
    /\ Len(gridObjs[1]) > 0
    /\ last.res = "ValueError"

-----------------------------------------------------------------------------
(* Iteration steps (utils/iterationStep.py, utils/engines_handler.py,      *)
(* utils/simulation_handler.py).  In the specifications of this part       *)
(* gridObjs is the heap of the Grid objects the steps hold: a step's grid  *)
(* is an index into it.                                                    *)

\* the grid attribute of a step whose grid has been set to None
NoGrid == 0

\* an IterationStep object, and the None that clear_old_iterations puts in
\* the place of one
IterationStep(iteration_name, step_no, grid) ==
    [released |-> FALSE, name |-> iteration_name, step_no |-> step_no, grid |-> grid]
NoneStep == [released |-> TRUE, name |-> "", step_no |-> 0, grid |-> NoGrid]

\* the names of the steps of an iterations list
StepNamesOf(iterations) == [i \in 1..Len(iterations) |-> iterations[i].name]

\* a copy of a step that holds the Grid object of the step it is copied from
copy_reference(heap, step) == [heap |-> heap, step |-> step]

\* copy.deepcopy(previous_iteration): a new step with a new Grid object that
\* has the nodes and values of the copied one
deepcopy(heap, step) ==
    IF step.grid = NoGrid THEN [heap |-> heap, step |-> step]
    ELSE [heap |-> Append(heap, heap[step.grid]),
          step |-> [step EXCEPT !.grid = Len(heap) + 1]]

\* an iterations list no grid of which is deleted
keep_previous_grid(iterations) == iterations

\* self.iterations[len(self.iterations) - 2].grid = None when there is
\* more than one step
drop_previous_grid(iterations) ==
    IF Len(iterations) > 1
    THEN [iterations EXCEPT ![Len(iterations) - 1].grid = NoGrid]
    ELSE iterations

\* EnginesHandler.add_iteration_step on the list iterations of an engine,
\* for a string name and boolean flags: the answer ("ok" when a step is
\* returned), the list and the heap after the call.  The loop over the names
\* reads .name of every entry and raises AttributeError on an entry that is
\* None; with previous_copy and no step, self.iterations[-1] raises
\* IndexError.
EnginesHandler_add_iteration_step(iterations, heap, iteration_name, previous_copy, delete_previous_grid) ==
    LET step_no == Len(iterations)
        unchanged(res) == [res |-> res, iterations |-> iterations, heap |-> heap]
    IN IF \E i \in 1..Len(iterations) : iterations[i].released
       THEN unchanged("AttributeError")
       ELSE IF \E i \in 1..Len(iterations) : iterations[i].name = iteration_name
       THEN unchanged("NameError")
       ELSE LET kept == IF delete_previous_grid THEN drop_previous_grid(iterations)
                        ELSE iterations
            IN IF previous_copy
               THEN IF Len(kept) = 0 THEN unchanged("IndexError")
                    ELSE LET c == deepcopy(heap, kept[Len(kept)])
                         IN [res |-> "ok",
                             iterations |-> Append(kept,
                                [c.step EXCEPT !.name = iteration_name,
                                               !.step_no = step_no]),
                             heap |-> c.heap]
               ELSE [res |-> "ok",
                     iterations |-> Append(kept,
                        IterationStep(iteration_name, step_no, Len(heap) + 1)),
                     heap |-> Append(heap, <<>>)]

\* the loop of SimulationHandler.add_iteration_step over the engines from
\* engine i on, in the order of the dict: the first exception ends it
RECURSIVE add_to_engines(_, _, _, _, _)
add_to_engines(engines, heap, step_name, copy_previous, i) ==
    IF i > Len(engines) THEN [res |-> "ok", engines |-> engines, heap |-> heap]
    ELSE LET r == EnginesHandler_add_iteration_step(engines[i].iterations, heap,
                        step_name, copy_previous, TRUE)
         IN IF r.res # "ok" THEN [res |-> r.res, engines |-> engines, heap |-> heap]
            ELSE add_to_engines([engines EXCEPT ![i].iterations = r.iterations],
                                r.heap, step_name, copy_previous, i + 1)

\* SimulationHandler.add_iteration_step: the answer, the handler and the
\* heap after the call; the name is appended only after every engine has
\* added its step
SimulationHandler_add_iteration_step(h, heap, step_name, copy_previous) ==
    IF Len(h.engines) = 0 THEN [res |-> "ValueError", handler |-> h, heap |-> heap]
    ELSE LET r == add_to_engines(h.engines, heap, step_name, copy_previous, 1)
         IN [res |-> r.res,
             handler |-> [engines |-> r.engines,
                          iterations |-> IF r.res = "ok"
                                         THEN Append(h.iterations, step_name)
                                         ELSE h.iterations],
             heap |-> r.heap]

\* SimulationHandler.add_engine for a string engine_name
add_engine(h, engine_name) ==
    IF \E i \in 1..Len(h.engines) : h.engines[i].engine_name = engine_name
    THEN [res |-> "NameError", handler |-> h]
    ELSE [res |-> "ok",
          handler |-> [h EXCEPT !.engines =
                Append(h.engines, [engine_name |-> engine_name, iterations |-> <<>>])]]

\* the loop of clear_old_iterations over the engines from engine i on:
\* engine.iterations[len(engine.iterations) - 3] = None.  A negative index
\* counts from the end of the list, and one before its first entry raises
\* IndexError.
RECURSIVE clear_engines(_, _)
clear_engines(engines, i) ==
    IF i > Len(engines) THEN [res |-> "True", engines |-> engines]
    ELSE LET n == Len(engines[i].iterations)
             index == n - 3
             position == IF index >= 0 THEN index + 1 ELSE n + index + 1
         IN IF position < 1 THEN [res |-> "IndexError", engines |-> engines]
            ELSE clear_engines(
                    [engines EXCEPT ![i].iterations[position] = NoneStep], i + 1)

\* SimulationHandler.clear_old_iterations
clear_old_iterations(h) ==
    IF Len(h.iterations) > 2
    THEN LET r == clear_engines(h.engines, 1)
         IN [res |-> r.res, handler |-> [h EXCEPT !.engines = r.engines]]
    ELSE [res |-> "False", handler |-> h]

\* SimulationHandler.get_current_iterations: whether it returns the steps
\* or raises IndexError, for no iteration or for an engine without a step
get_current_iterations(h) ==
    IF Len(h.iterations) > 0
    THEN IF \E i \in 1..Len(h.engines) : Len(h.engines[i].iterations) = 0
         THEN "IndexError" ELSE "ok"
    ELSE "IndexError"

\* the longest iterations list of the model
MaxSteps == 4

EngineNames == {"abaqus", "pace3d"}
StepNames == {"s1", "s2", "s3", "s4"}

HandlerInit ==
    /\ gridObjs = <<>>
    /\ grids = [n \in {} |-> 0]
    /\ last = [op |-> "init", call |-> <<>>, res |-> ""]
    /\ transitions = 0
    /\ handler = NoHandler

\* handler.add_engine(engine_name)
AddEngine(engine_name) ==
    LET r == add_engine(handler, engine_name)
    IN /\ handler' = r.handler
       /\ last' = [op |-> "add_engine", call |-> [engine_name |-> engine_name],
                   res |-> r.res]
       /\ UNCHANGED <<gridObjs, grids, transitions>>

\* handler.add_iteration_step(step_name, copy_previous)
AddIterationStep(step_name, copy_previous) ==
    LET r == SimulationHandler_add_iteration_step(handler, gridObjs, step_name,
                                                  copy_previous)
    IN /\ \A i \in 1..Len(handler.engines) :
             Len(handler.engines[i].iterations) < MaxSteps
       /\ handler' = r.handler
       /\ gridObjs' = r.heap
       /\ last' = [op |-> "add_iteration_step",
                   call |-> [step_name |-> step_name, copy_previous |-> copy_previous],
                   res |-> r.res]
       /\ UNCHANGED <<grids, transitions>>

\* handler.clear_old_iterations()
ClearOldIterations ==
    LET r == clear_old_iterations(handler)
    IN /\ handler' = r.handler
       /\ last' = [op |-> "clear_old_iterations", call |-> <<>>, res |-> r.res]
       /\ UNCHANGED <<gridObjs, grids, transitions>>

HandlerNext ==
    \/ \E engine_name \in EngineNames : AddEngine(engine_name)
    \/ \E step_name \in StepNames, copy_previous \in BOOLEAN :
            AddIterationStep(step_name, copy_previous)
    \/ ClearOldIterations

HandlerSpec == HandlerInit /\ [][HandlerNext]_vars

-----------------------------------------------------------------------------
(* C24, C28, C29: the SimulationHandler *)

\* C24: clear_old_iterations with fewer than three iterations returns False
\* and changes nothing; with three or more it returns True and in every
\* engine, of N steps, entry N-3 is released and every other entry, the
\* current step and the step before it among them, is the step it was, with
\* its grid.
C24_ClearOldIterations ==
    [][(last'.op = "clear_old_iterations") =>
        IF Len(handler.iterations) < 3
        THEN last'.res = "False" /\ handler' = handler /\ gridObjs' = gridObjs
        ELSE /\ last'.res = "True"
             /\ gridObjs' = gridObjs
             /\ handler'.iterations = handler.iterations
             /\ Len(handler'.engines) = Len(handler.engines)
             /\ \A e \in 1..Len(handler.engines) :
                  LET before == handler.engines[e].iterations
                      after == handler'.engines[e].iterations
                      N == Len(before)
                  IN /\ Len(after) = N
                     /\ N >= 3
                     /\ after[N - 2].released
                     /\ \A i \in 1..N : i # N - 2 => after[i] = before[i]]_vars

\* the step names a handler and its engines have used
UsedNames(h) ==
    {h.iterations[i] : i \in 1..Len(h.iterations)}
        \cup UNION {{h.engines[e].iterations[i].name :
                        i \in 1..Len(h.engines[e].iterations)} :
                    e \in 1..Len(h.engines)}

\* C28: an add_iteration_step with a step name not used before, called
\* right after a clear_old_iterations that returned True, returns the steps
\* it has added: it succeeds on every engine.
C28_AddAfterClear ==
    [][(/\ last.op = "clear_old_iterations" /\ last.res = "True"
        /\ last'.op = "add_iteration_step"
        /\ last'.call.step_name \notin UsedNames(handler)) =>
            /\ last'.res = "ok"
            /\ \A e \in 1..Len(handler.engines) :
                  Len(handler'.engines[e].iterations)
                      = Len(handler.engines[e].iterations) + 1]_vars

\* no entry of an iterations list has been released by clear_old_iterations
NoneReleased(h) ==
    \A e \in 1..Len(h.engines) :
        \A i \in 1..Len(h.engines[e].iterations) : ~h.engines[e].iterations[i].released

\* C29: as long as add_engine and add_iteration_step are the only calls that
\* have changed the handler, every engine's iterations list holds steps with
\* the names of the handler's list of iteration names, in that order, and
\* get_current_iterations returns whenever that list is not empty.
C29_ListsAgree ==
    NoneReleased(handler) =>
        /\ \A e \in 1..Len(handler.engines) :
              StepNamesOf(handler.engines[e].iterations) = handler.iterations
        /\ Len(handler.iterations) > 0 => get_current_iterations(handler) = "ok"

-----------------------------------------------------------------------------
(* One EnginesHandler and the grids of its steps *)

EngineInit ==
    /\ gridObjs = <<>>
    /\ grids = [n \in {} |-> 0]
    /\ last = [op |-> "init", call |-> <<>>, res |-> ""]
    /\ transitions = 0
    /\ handler = [engines |-> <<[engine_name |-> "abaqus", iterations |-> <<>>]>>,
                  iterations |-> <<>>]

\* the iterations list of the engine
EngineIterations == handler.engines[1].iterations

\* the writes to the grid of a step
StepInitCalls == {[data_set |-> RowsA, value_name |-> "p", clear_first |-> TRUE]}
StepSetCalls == {[value_name |-> "p", node_dict |-> (1 :> Num(30))]}

\* engine.add_iteration_step(iteration_name, previous_copy), with the default
\* delete_previous_grid
EngineAddIterationStep(iteration_name, previous_copy) ==
    LET r == EnginesHandler_add_iteration_step(EngineIterations, gridObjs,
                                               iteration_name, previous_copy, TRUE)
    IN /\ Len(EngineIterations) < MaxSteps
       /\ handler' = [handler EXCEPT !.engines[1].iterations = r.iterations]
       /\ gridObjs' = r.heap
       /\ last' = [op |-> "add_iteration_step",
                   call |-> [iteration_name |-> iteration_name,
                             previous_copy |-> previous_copy],
                   res |-> r.res]
       /\ UNCHANGED <<grids, transitions>>

\* engine.iterations[step - 1].grid.initiate_grid(data_set, value_name, clear_first)
StepInitiateGrid(step, call) ==
    /\ step \in 1..Len(EngineIterations)
    /\ EngineIterations[step].grid # NoGrid
    /\ LET ref == EngineIterations[step].grid
           r == initiate_grid(gridObjs[ref], call.data_set, call.value_name,
                              call.clear_first)
       IN /\ gridObjs' = [gridObjs EXCEPT ![ref] = r.grid]
          /\ last' = [op |-> "initiate_grid", call |-> [step |-> step], res |-> r.res]
    /\ UNCHANGED <<grids, transitions, handler>>

\* engine.iterations[step - 1].grid.set_node_values(value_name, node_dict)
StepSetNodeValues(step, call) ==
    /\ step \in 1..Len(EngineIterations)
    /\ EngineIterations[step].grid # NoGrid
    /\ LET ref == EngineIterations[step].grid
           r == set_node_values(gridObjs[ref], call.value_name, call.node_dict)
       IN /\ gridObjs' = [gridObjs EXCEPT ![ref] = r.grid]
          /\ last' = [op |-> "set_node_values", call |-> [step |-> step], res |-> r.res]
    /\ UNCHANGED <<grids, transitions, handler>>

EngineNext ==
    \/ \E iteration_name \in StepNames, previous_copy \in BOOLEAN :
            EngineAddIterationStep(iteration_name, previous_copy)
    \/ \E step \in 1..MaxSteps, call \in StepInitCalls : StepInitiateGrid(step, call)
    \/ \E step \in 1..MaxSteps, call \in StepSetCalls : StepSetNodeValues(step, call)

EngineSpec == EngineInit /\ [][EngineNext]_vars

\* C25: after any sequence of add_iteration_step calls with the default
\* delete_previous_grid, the two most recent steps each hold a Grid, every
\* older step has its grid set to None, the names of the steps are pairwise
\* distinct and the step_no of a step is its zero-based position.
C25_TwoGrids ==
    LET its == EngineIterations
        N == Len(its)
    IN /\ \A i \in 1..N :
            /\ ~its[i].released
            /\ its[i].step_no = i - 1
            /\ IF i >= N - 1
               THEN its[i].grid # NoGrid /\ its[i].grid \in 1..Len(gridObjs)
               ELSE its[i].grid = NoGrid
       /\ \A i, j \in 1..N : its[i].name = its[j].name => i = j

\* three steps, the last one a copy of the step before it
C25_Witness ==
    /\ Len(EngineIterations) = 3
    /\ last.op = "add_iteration_step" /\ last.res = "ok" /\ last.call.previous_copy
    /\ EngineIterations[1].grid = NoGrid
    /\ EngineIterations[2].grid # NoGrid
    /\ EngineIterations[3].grid # NoGrid

-----------------------------------------------------------------------------
(* Transitions over a neighbor map that is older than the source grid *)

\* a source grid reduced to node 2, one whose node 1 holds None for p, and a
\* target grid with a node next to each node of RowsA
RowsLast ==
    <<[node_number |-> 2, x_coordinate |-> 10, y_coordinate |-> 0, value |-> Num(20)]>>
RowsNone ==
    <<[node_number |-> 1, x_coordinate |-> 0, y_coordinate |-> 0,
       values |-> [p |-> None]],
      [node_number |-> 2, x_coordinate |-> 10, y_coordinate |-> 0,
       values |-> [p |-> Num(20)]]>>
RowsT ==
    <<[node_number |-> 1, x_coordinate |-> 1, y_coordinate |-> 0, value |-> Num(1)],
      [node_number |-> 2, x_coordinate |-> 9, y_coordinate |-> 0, value |-> Num(2)]>>

StaleInitCalls ==
    {[gid |-> 1, data_set |-> RowsA, value_name |-> "p", clear_first |-> TRUE],
     [gid |-> 1, data_set |-> RowsLast, value_name |-> "p", clear_first |-> TRUE],
     [gid |-> 1, data_set |-> RowsNone, value_name |-> "", clear_first |-> TRUE],
     [gid |-> 2, data_set |-> RowsT, value_name |-> "p", clear_first |-> TRUE],
     [gid |-> 2, data_set |-> RowsB, value_name |-> "", clear_first |-> TRUE]}

StaleFnnCalls ==
    {[src |-> "A", tgt |-> "B", neighbors_quantity |-> 2, distance_max |-> 6],
     [src |-> "A", tgt |-> "B", neighbors_quantity |-> 2, distance_max |-> Inf]}

StaleNext ==
    \/ \E call \in StaleInitCalls : InitiateGrid(call)
    \/ \E call \in AddCalls : AddGrid(call.gid, call.grid_name)
    \/ \E call \in StaleFnnCalls : FindNearestNeighbors(call)
    \/ Transition("A", "p", "B")
    \/ Transition("A", "q", "B")

StaleSpec == Init /\ [][StaleNext]_vars

-----------------------------------------------------------------------------
(* C27: a transition that raises *)

\* C27: when transition(S, F, T) raises, every Grid object, the target grid
\* among them, holds the nodes and values it held before the call.
C27_AllOrNothing ==
    [][(last'.op = "transition" /\ last'.res # "True") => gridObjs' = gridObjs]_vars

\* a transition has raised on a target grid loaded with p = 1 and p = 2 whose
\* node 1 holds another value
C27_Witness ==
    /\ last.op = "transition" /\ last.res = "KeyError"
    /\ last.tgt \in DOMAIN grids
    /\ LET T == GridOf(grids, gridObjs, last.tgt)
       IN /\ NodeNumbers(T) = {1, 2}
          /\ StoredValue(NodeOf(T, 1), "p") = Num(20)
          /\ StoredValue(NodeOf(T, 2), "p") = Num(2)

====
